---- MODULE Spec2Model ----
(***************************************************************************)
(* Model of migrate/migrators/account_store_mapping.py:                    *)
(* ApplicationAccountStoreMappingMigrator and                              *)
(* OrganizationAccountStoreMappingMigrator.                                *)
(*                                                                         *)
(* The state is the destination tenant as the hosted API holds it (its     *)
(* directories, groups and organizations, and its account store mappings), *)
(* the source mapping a migrator was built with, and, per migrate()        *)
(* invocation, the attributes migrate() assigns and the place it has       *)
(* reached.  Every remote call is one step that either succeeds or raises  *)
(* StormpathError.                                                         *)
(***************************************************************************)
EXTENDS Naturals, Sequences, FiniteSets

VARIABLES
    kind,                       \* per invocation: the migrator class, "application" or "organization"
    tenant,                     \* destination tenant: collection name -> sequence of resources
    sasm,                       \* self.source_account_store_mapping
    mappings,                   \* the account store mappings the destination holds, in listing order
    nextHref,                   \* the href the destination gives the next mapping it creates
    failures,                   \* remote calls that raised StormpathError so far
    pc,                         \* per invocation: the place migrate() has reached
    destination_tenant,         \* self.destination_tenant
    source_account_store,       \* self.source_account_store
    destination_account_store,  \* self.destination_account_store
    collection,                 \* the local of get_destination_account_store: the collection searched
    ret,                        \* what the invocation returned
    log,                        \* the levels of the log entries of the invocation
    ops,                        \* the remote operations the invocation issued, with their outcome
    atStart,                    \* the destination's mappings when the invocation started
    history                     \* the completed invocations, in order of completion

vars == <<kind, tenant, sasm, mappings, nextHref, failures, pc,
          destination_tenant, source_account_store, destination_account_store,
          collection, ret, log, ops, atStart, history>>

(***************************************************************************)
(* Bounds of the model.                                                    *)
(***************************************************************************)
MaxFailures == 2

\* The invocations of migrate(): each migrator object runs migrate() once.
Procs == {"m1", "m2"}

(***************************************************************************)
(* Python values.                                                          *)
(***************************************************************************)
None == [none |-> TRUE]

\* Class names, as the strings __class__.__name__ yields, one character per element.
Directory == <<"D", "i", "r", "e", "c", "t", "o", "r", "y">>
Group == <<"G", "r", "o", "u", "p">>
Organization == <<"O", "r", "g", "a", "n", "i", "z", "a", "t", "i", "o", "n">>

directories == <<"d", "i", "r", "e", "c", "t", "o", "r", "i", "e", "s">>
groups == <<"g", "r", "o", "u", "p", "s">>
organizations == <<"o", "r", "g", "a", "n", "i", "z", "a", "t", "i", "o", "n", "s">>

UpperCase == <<"A", "B", "C", "D", "E", "F", "G", "H", "I", "J", "K", "L", "M",
               "N", "O", "P", "Q", "R", "S", "T", "U", "V", "W", "X", "Y", "Z">>
LowerCase == <<"a", "b", "c", "d", "e", "f", "g", "h", "i", "j", "k", "l", "m",
               "n", "o", "p", "q", "r", "s", "t", "u", "v", "w", "x", "y", "z">>

\* str.lower() on one character
LowerChar(c) ==
    IF \E i \in DOMAIN UpperCase : UpperCase[i] = c
    THEN LowerCase[CHOOSE i \in DOMAIN UpperCase : UpperCase[i] = c]
    ELSE c

\* str.lower()
Lower(s) == [i \in DOMAIN s |-> LowerChar(s[i])]

(***************************************************************************)
(* The resources of the model.                                             *)
(***************************************************************************)
Resource(h, n, k) == [href |-> h, name |-> n, klass |-> k]

D1 == Resource("d1", "x", Directory)
D2 == Resource("d2", "y", Directory)
G1 == Resource("g1", "x", Group)
G2 == Resource("g2", "x", Group)
O1 == Resource("o1", "x", Organization)

Tenant(ds, gs, os) ==
    [c \in {directories, groups, organizations} |->
        IF c = directories THEN ds ELSE IF c = groups THEN gs ELSE os]

\* The destination tenants the runs start from.
TenantChoices ==
    { Tenant(<<D1>>, <<G1, G2>>, <<O1>>),
      Tenant(<<D2, D1>>, <<G2>>, << >>),
      Tenant(<<D2>>, << >>, <<O1>>) }

\* self.destination_application / self.destination_organization
DestinationParent == [href |-> "parent", name |-> "p"]
OtherParent == [href |-> "elsewhere", name |-> "q"]
TenantRef == [href |-> "tenant"]

Kinds == {"application", "organization"}

\* An account store mapping as the destination holds it.
Mapping(h, k, parent, store, idx, das, dgs) ==
    [href |-> h,
     account_store |-> store,
     application |-> IF k = "application" THEN parent ELSE "",
     organization |-> IF k = "organization" THEN parent ELSE "",
     list_index |-> idx,
     is_default_account_store |-> das,
     is_default_group_store |-> dgs]

\* The account store mappings the destination holds before the migration.
MappingChoices(k) ==
    { << >>,
      << Mapping(1, k, DestinationParent.href, "d1", 5, TRUE, TRUE) >>,
      << Mapping(1, k, OtherParent.href, "d1", 5, TRUE, TRUE),
         Mapping(2, k, DestinationParent.href, "g1", 5, TRUE, TRUE) >>,
      << Mapping(1, k, DestinationParent.href, "g2", 5, TRUE, TRUE),
         Mapping(2, k, DestinationParent.href, "o1", 5, TRUE, TRUE) >> }

\* The classes a source account store can have under each migrator.
SourceClasses(k) ==
    IF k = "application" THEN {Directory, Group, Organization} ELSE {Directory, Group}

\* The source account stores: one of each class named "x", and a Directory named "y".
SourceStores(k) ==
    {Resource("src", "x", c) : c \in SourceClasses(k)} \cup {Resource("src", "y", Directory)}

\* The source mappings a migrator is built with.
SourceChoices(k) ==
    { [href |-> "sasm",
       account_store |-> a,
       list_index |-> s[1],
       is_default_account_store |-> s[2],
       is_default_group_store |-> s[3]] :
         a \in SourceStores(k), s \in {<<0, TRUE, FALSE>>, <<1, FALSE, TRUE>>} }

(***************************************************************************)
(* The hosted API, as the migrators use it.                                *)
(***************************************************************************)
\* collection.search({'name': name})
search(resources, name) == SelectSeq(resources, LAMBDA r : r.name = name)

\* ParentOf reading mapping.application in both classes.
ParentOf_AlwaysApplication(self, mapping) == mapping.application

\* mapping.application / mapping.organization
ParentOf(self, mapping) ==
    IF kind[self] = "application" THEN mapping.application ELSE mapping.organization

\* da.account_store_mappings / do.account_store_mappings
account_store_mappings(self, da) ==
    SelectSeq(mappings, LAMBDA m : ParentOf(self, m) = da.href)

(***************************************************************************)
(* The migrators' computations.                                            *)
(***************************************************************************)
\* Collection without the special case of Directory.
Collection_NoSpecialCase(klass) == Lower(klass) \o <<"s">>

\* collection = 'directories' if klass == 'Directory' else klass.lower() + 's'
Collection(klass) ==
    IF klass = Directory THEN directories ELSE Lower(klass) \o <<"s">>

\* matches[0] if len(matches) > 0 else None
FirstMatch(matches) == IF Len(matches) > 0 THEN matches[1] ELSE None

\* DestinationSearch taking the first resource of the collection, whatever its name.
DestinationSearch_NoNameFilter(attr, sas) == FirstMatch(tenant[attr])

\* the body of the try of get_destination_account_store
DestinationSearch(attr, sas) == FirstMatch(search(tenant[attr], sas.name))

\* Matches comparing the mapping's account store with the parent's href.
Matches_WrongHref(self, mapping, das, da) ==
    mapping.account_store = da.href /\ ParentOf(self, mapping) = da.href

\* mapping.account_store.href == das.href and mapping.application.href == da.href
Matches(self, mapping, das, da) ==
    mapping.account_store = das.href /\ ParentOf(self, mapping) = da.href

\* the for loop of copy_mapping: the first mapping of the listing that matches
ExistingMapping(self, da, das) ==
    LET listing == account_store_mappings(self, da)
        hits == SelectSeq(listing, LAMBDA m : Matches(self, m, das, da))
    IN  IF Len(hits) > 0 THEN hits[1] ELSE None

\* NewMapping with the account store and the parent exchanged.
NewMapping_StoreAndParentSwapped(self, da, das) ==
    Mapping(nextHref, kind[self], das.href, da.href,
            sasm.list_index, sasm.is_default_account_store, sasm.is_default_group_store)

\* NewMapping with the two default flags exchanged.
NewMapping_FlagsSwapped(self, da, das) ==
    Mapping(nextHref, kind[self], da.href, das.href,
            sasm.list_index, sasm.is_default_group_store, sasm.is_default_account_store)

\* the dict given to create, as the destination stores it
NewMapping(self, da, das) ==
    Mapping(nextHref, kind[self], da.href, das.href,
            sasm.list_index, sasm.is_default_account_store, sasm.is_default_group_store)

(***************************************************************************)
(* The state after the migrators are constructed (__init__).               *)
(***************************************************************************)
\* No invocation of migrate() has started.
NotStarted ==
    /\ nextHref = 3
    /\ failures = 0
    /\ pc = [p \in Procs |-> "idle"]
    /\ destination_tenant = [p \in Procs |-> None]
    /\ source_account_store = [p \in Procs |-> None]
    /\ destination_account_store = [p \in Procs |-> None]
    /\ collection = [p \in Procs |-> << >>]
    /\ ret = [p \in Procs |-> None]
    /\ log = [p \in Procs |-> << >>]
    /\ ops = [p \in Procs |-> << >>]
    /\ atStart = [p \in Procs |-> << >>]
    /\ history = << >>

\* Migrators of one class, built with the same destination parent and source mapping.
Init ==
    /\ \E k \in Kinds :
          /\ kind = [p \in Procs |-> k]
          /\ sasm \in SourceChoices(k)
          /\ mappings \in MappingChoices(k)
    /\ tenant \in TenantChoices
    /\ NotStarted

Finished == {"idle", "returned", "raised"}

Op(name, ok) == [op |-> name, ok |-> ok]

\* A remote call raised StormpathError inside a try: the except clause logs
\* the error and the while loop repeats the call.
Retry(p, name) ==
    /\ failures < MaxFailures
    /\ failures' = failures + 1
    /\ ops' = [ops EXCEPT ![p] = Append(@, Op(name, FALSE))]
    /\ log' = [log EXCEPT ![p] = Append(@, "error")]

\* Return logging the success message whatever the outcome.
Return_AlwaysInfo(p, value, entry) ==
    /\ pc' = [pc EXCEPT ![p] = "returned"]
    /\ ret' = [ret EXCEPT ![p] = value]
    /\ log' = [log EXCEPT ![p] = Append(@, "info")]
    /\ history' = Append(history, [proc |-> p, outcome |-> "returned", value |-> value,
                                   created |-> Op("create", TRUE) \in
                                                 {ops'[p][i] : i \in DOMAIN ops'[p]}])

\* migrate() returns value.
Return(p, value, entry) ==
    /\ pc' = [pc EXCEPT ![p] = "returned"]
    /\ ret' = [ret EXCEPT ![p] = value]
    /\ log' = [log EXCEPT ![p] = Append(@, entry)]
    /\ history' = Append(history, [proc |-> p, outcome |-> "returned", value |-> value,
                                   created |-> Op("create", TRUE) \in
                                                 {ops'[p][i] : i \in DOMAIN ops'[p]}])

\* migrate() is called on a migrator.
Begin(p) ==
    /\ pc[p] = "idle"
    /\ pc' = [pc EXCEPT ![p] = "get_destination_tenant"]
    /\ atStart' = [atStart EXCEPT ![p] = mappings]
    /\ UNCHANGED <<kind, collection, tenant, sasm, mappings, nextHref, failures,
                   destination_tenant, source_account_store, destination_account_store,
                   ret, log, ops, history>>

\* migrate() is called while no other invocation is running.
Start(p) ==
    /\ \A q \in Procs : pc[q] \in Finished
    /\ Begin(p)

\* get_destination_tenant: da.tenant.refresh() succeeds
GetDestinationTenant(p) ==
    /\ pc[p] = "get_destination_tenant"
    /\ destination_tenant' = [destination_tenant EXCEPT ![p] = TenantRef]
    /\ ops' = [ops EXCEPT ![p] = Append(@, Op("tenant_refresh", TRUE))]
    /\ pc' = [pc EXCEPT ![p] = "get_source_account_store"]
    /\ UNCHANGED <<kind, collection, tenant, sasm, mappings, nextHref, failures,
                   source_account_store, destination_account_store, ret, log, atStart,
                   history>>

\* get_destination_tenant: da.tenant.refresh() raises StormpathError
GetDestinationTenantFails(p) ==
    /\ pc[p] = "get_destination_tenant"
    /\ Retry(p, "tenant_refresh")
    /\ UNCHANGED <<kind, collection, tenant, sasm, mappings, nextHref, pc,
                   destination_tenant, source_account_store, destination_account_store,
                   ret, atStart, history>>

\* get_source_account_store: sasm.account_store.refresh() succeeds; migrate()
\* enters get_destination_account_store, which computes the collection to search
GetSourceAccountStore(p) ==
    /\ pc[p] = "get_source_account_store"
    /\ source_account_store' = [source_account_store EXCEPT ![p] = sasm.account_store]
    /\ collection' = [collection EXCEPT ![p] = Collection(sasm.account_store.klass)]
    /\ ops' = [ops EXCEPT ![p] = Append(@, Op("source_refresh", TRUE))]
    /\ pc' = [pc EXCEPT ![p] = "get_destination_account_store"]
    /\ UNCHANGED <<kind, tenant, sasm, mappings, nextHref, failures,
                   destination_tenant, destination_account_store, ret, log, atStart,
                   history>>

\* get_source_account_store: sasm.account_store.refresh() raises StormpathError
GetSourceAccountStoreFails(p) ==
    /\ pc[p] = "get_source_account_store"
    /\ Retry(p, "source_refresh")
    /\ UNCHANGED <<kind, collection, tenant, sasm, mappings, nextHref, pc,
                   destination_tenant, source_account_store, destination_account_store,
                   ret, atStart, history>>

\* An exception leaves migrate(): nothing is logged and nothing is returned.
Raise(p, name) ==
    /\ pc' = [pc EXCEPT ![p] = "raised"]
    /\ ops' = [ops EXCEPT ![p] = Append(@, Op(name, FALSE))]
    /\ history' = Append(history, [proc |-> p, outcome |-> "raised", value |-> None,
                                   created |-> FALSE])

\* get_destination_account_store: the search succeeds; then lines 121-127 of
\* migrate(): without a destination account store, warn and return None.
\* (getattr raises AttributeError when the tenant has no such collection.)
GetDestinationAccountStore(p) ==
    /\ pc[p] = "get_destination_account_store"
    /\ IF collection[p] \notin DOMAIN tenant
       THEN /\ Raise(p, "search")
            /\ UNCHANGED <<destination_account_store, ret, log>>
       ELSE LET das == DestinationSearch(collection[p], source_account_store[p])
            IN  /\ destination_account_store' = [destination_account_store EXCEPT ![p] = das]
                /\ ops' = [ops EXCEPT ![p] = Append(@, Op("search", TRUE))]
                /\ IF das = None
                   THEN Return(p, None, "warning")
                   ELSE /\ pc' = [pc EXCEPT ![p] = "copy_mapping"]
                        /\ UNCHANGED <<ret, log, history>>
    /\ UNCHANGED <<kind, collection, tenant, sasm, mappings, nextHref, failures,
                   destination_tenant, source_account_store, atStart>>

\* get_destination_account_store: the search raises StormpathError
GetDestinationAccountStoreFails(p) ==
    /\ pc[p] = "get_destination_account_store"
    /\ Retry(p, "search")
    /\ UNCHANGED <<kind, collection, tenant, sasm, mappings, nextHref, pc,
                   destination_tenant, source_account_store, destination_account_store,
                   ret, atStart, history>>

\* copy_mapping: the for loop finds the mapping; migrate() logs and returns it
CopyMappingExists(p) ==
    /\ pc[p] = "copy_mapping"
    /\ LET mapping == ExistingMapping(p, DestinationParent, destination_account_store[p])
       IN  /\ mapping # None
           /\ ops' = [ops EXCEPT ![p] = Append(@, Op("list_mappings", TRUE))]
           /\ Return(p, mapping, "info")
    /\ UNCHANGED <<kind, collection, tenant, sasm, mappings, nextHref, failures,
                   destination_tenant, source_account_store, destination_account_store,
                   atStart>>

\* copy_mapping: the for loop ends without a match
CopyMappingAbsent(p) ==
    /\ pc[p] = "copy_mapping"
    /\ ExistingMapping(p, DestinationParent, destination_account_store[p]) = None
    /\ ops' = [ops EXCEPT ![p] = Append(@, Op("list_mappings", TRUE))]
    /\ pc' = [pc EXCEPT ![p] = "create"]
    /\ UNCHANGED <<kind, collection, tenant, sasm, mappings, nextHref, failures,
                   destination_tenant, source_account_store, destination_account_store,
                   ret, log, atStart, history>>

\* copy_mapping: iterating da.account_store_mappings raises StormpathError.
\* The for loop is outside any try, so the error leaves copy_mapping and migrate.
CopyMappingListingFails(p) ==
    /\ pc[p] = "copy_mapping"
    /\ failures < MaxFailures
    /\ failures' = failures + 1
    /\ Raise(p, "list_mappings")
    /\ UNCHANGED <<kind, collection, tenant, sasm, mappings, nextHref,
                   destination_tenant, source_account_store, destination_account_store,
                   ret, log, atStart>>

\* copy_mapping: create succeeds; migrate() logs and returns the new mapping
Create(p) ==
    /\ pc[p] = "create"
    /\ LET mapping == NewMapping(p, DestinationParent, destination_account_store[p])
       IN  /\ mappings' = Append(mappings, mapping)
           /\ nextHref' = nextHref + 1
           /\ ops' = [ops EXCEPT ![p] = Append(@, Op("create", TRUE))]
           /\ Return(p, mapping, "info")
    /\ UNCHANGED <<kind, collection, tenant, sasm, failures, destination_tenant,
                   source_account_store, destination_account_store, atStart>>

\* copy_mapping: create raises StormpathError, before the destination stored the
\* mapping or after it (the response was lost); the while loop repeats the call
CreateFails(p) ==
    /\ pc[p] = "create"
    /\ Retry(p, "create")
    /\ \E stored \in BOOLEAN :
          IF stored
          THEN /\ mappings' = Append(mappings,
                      NewMapping(p, DestinationParent, destination_account_store[p]))
               /\ nextHref' = nextHref + 1
          ELSE UNCHANGED <<mappings, nextHref>>
    /\ UNCHANGED <<kind, collection, tenant, sasm, pc, destination_tenant,
                   source_account_store, destination_account_store, ret, atStart,
                   history>>

Step(p) ==
    \/ GetDestinationTenant(p)
    \/ GetDestinationTenantFails(p)
    \/ GetSourceAccountStore(p)
    \/ GetSourceAccountStoreFails(p)
    \/ GetDestinationAccountStore(p)
    \/ GetDestinationAccountStoreFails(p)
    \/ CopyMappingExists(p)
    \/ CopyMappingAbsent(p)
    \/ CopyMappingListingFails(p)
    \/ Create(p)
    \/ CreateFails(p)

\* The migration tool runs its migrators one after the other.
Next == \E p \in Procs : Start(p) \/ Step(p)

Spec == Init /\ [][Next]_vars

\* Two runs of the migration tool at once: invocations interleave.
NextConcurrent == \E p \in Procs : Begin(p) \/ Step(p)

SpecConcurrent == Init /\ [][NextConcurrent]_vars

(***************************************************************************)
(* The two classes side by side: "m1" is an                                *)
(* ApplicationAccountStoreMappingMigrator and "m2" an                      *)
(* OrganizationAccountStoreMappingMigrator, built with the same source     *)
(* mapping, against a destination that holds corresponding application and *)
(* organization mappings.  "m1" issues a remote call, then "m2" issues its *)
(* next one, which succeeds or fails as the call of "m1" did.              *)
(***************************************************************************)
\* The organization mappings that correspond to application mappings.
Twin(ms) ==
    [i \in DOMAIN ms |->
        Mapping(ms[i].href, "organization", ms[i].application, ms[i].account_store,
                ms[i].list_index, ms[i].is_default_account_store,
                ms[i].is_default_group_store)]

InitPair ==
    /\ kind = [p \in Procs |-> IF p = "m1" THEN "application" ELSE "organization"]
    /\ sasm \in SourceChoices("organization")
    /\ \E ms \in MappingChoices("application") : mappings = ms \o Twin(ms)
    /\ tenant \in TenantChoices
    /\ NotStarted

NextPair ==
    \/ /\ pc["m2"] = "idle"
       /\ Begin("m1")
    \/ /\ pc["m1"] # "idle"
       /\ Begin("m2")
    \/ /\ pc["m2"] # "idle"
       /\ Len(ops["m1"]) = Len(ops["m2"])
       /\ Step("m1")
    \/ /\ Len(ops["m2"]) < Len(ops["m1"])
       /\ Step("m2")
       /\ ops'["m2"][Len(ops'["m2"])].ok = ops["m1"][Len(ops'["m2"])].ok

SpecPair == InitPair /\ [][NextPair]_vars

(***************************************************************************)
(* Vocabulary of the properties.                                           *)
(***************************************************************************)
Last(s) == s[Len(s)]

Elements(s) == {s[i] : i \in DOMAIN s}

Occurrences(s, e) == Cardinality({i \in DOMAIN s : s[i] = e})

Issued(p, name) == \E i \in DOMAIN ops[p] : ops[p][i].op = name

\* The parent a mapping belongs to: its application or its organization.
ParentHref(m) == IF m.application # "" THEN m.application ELSE m.organization

\* The positions of the destination's mappings that link the destination parent
\* to the account store with href h.
Between(ms, h) ==
    {i \in DOMAIN ms : ms[i].account_store = h /\ ParentHref(ms[i]) = DestinationParent.href}

\* The resources of the destination tenant of the source account store's kind
\* that carry the source account store's name.
SameNamed ==
    {r \in UNION {Elements(tenant[c]) : c \in DOMAIN tenant} :
        r.klass = sasm.account_store.klass /\ r.name = sasm.account_store.name}

\* The collection the hosted API keeps each class of account store in.
CollectionOf(klass) ==
    CASE klass = Directory -> directories
      [] klass = Group -> groups
      [] klass = Organization -> organizations

\* The place of each remote operation in the order of one invocation.
Rank(name) ==
    CASE name = "tenant_refresh" -> 1
      [] name = "source_refresh" -> 2
      [] name = "search" -> 3
      [] name = "list_mappings" -> 4
      [] name = "create" -> 5

(***************************************************************************)
(* Properties.                                                             *)
(***************************************************************************)

\* C1: migrate() is idempotent on the destination.  Once two or more
\* invocations for the same destination parent and source mapping have run to
\* completion in sequence and returned a mapping, the destination holds exactly
\* one mapping between the parent and the destination account store, and every
\* run after the first returned that mapping without creating one.
C1_MigrateIdempotent ==
    (/\ Len(history) >= 2
     /\ \A i \in DOMAIN history :
           history[i].outcome = "returned" /\ history[i].value # None)
    => /\ Cardinality(Between(mappings, history[1].value.account_store)) = 1
       /\ \A i \in DOMAIN history :
             i > 1 => history[i].value = history[1].value /\ ~history[i].created

\* C2: no invocation of migrate() ends by propagating a StormpathError of one
\* of its remote calls to its caller.
C2_NoStormpathErrorPropagates == \A p \in Procs : pc[p] # "raised"

\* C3: migrate() ends only by returning, and only in one of two outcomes: a
\* mapping between the destination parent and the destination account store
\* exists and is returned, or the destination account store does not exist and
\* None is returned.
C3_EndsOnlyWhenComplete ==
    \A i \in DOMAIN history :
        /\ history[i].outcome = "returned"
        /\ \/ history[i].value = None /\ SameNamed = {}
           \/ /\ history[i].value \in Elements(mappings)
              /\ ParentHref(history[i].value) = DestinationParent.href
              /\ \E r \in SameNamed : history[i].value.account_store = r.href

\* C4: a mapping is created only if absent.  When the existence check of
\* copy_mapping runs while the destination holds a mapping between the
\* destination parent and the destination account store, no create is issued,
\* such a mapping is returned and the destination's mappings are unchanged.
C4_CreateOnlyIfAbsent ==
    [][\A p \in Procs :
          (/\ pc[p] = "copy_mapping"
           /\ ops'[p] = Append(ops[p], Op("list_mappings", TRUE))
           /\ Between(mappings, destination_account_store[p].href) # {})
          => /\ pc'[p] = "returned"
             /\ \E i \in Between(mappings, destination_account_store[p].href) :
                   ret'[p] = mappings[i]
             /\ mappings' = mappings
             /\ \A i \in DOMAIN ops'[p] : ops'[p][i].op # "create"]_vars

\* The existence check found the mapping and migrate() returned it.
C4_Witness ==
    \E p \in Procs :
        /\ pc[p] = "returned"
        /\ ret[p] # None
        /\ Last(ops[p]) = Op("list_mappings", TRUE)
        /\ mappings = atStart[p]

\* C5 as stated: whenever migrate() returns a mapping, the mapping links the
\* destination parent to the destination account store named like the source
\* account store, and its list_index, is_default_account_store and
\* is_default_group_store equal those of the source mapping, whether it was
\* freshly created or already existed.
C5_ReturnedMappingMatchesSource ==
    \A p \in Procs :
        (pc[p] = "returned" /\ ret[p] # None)
        => /\ ParentHref(ret[p]) = DestinationParent.href
           /\ \E r \in SameNamed : ret[p].account_store = r.href
           /\ ret[p].list_index = sasm.list_index
           /\ ret[p].is_default_account_store = sasm.is_default_account_store
           /\ ret[p].is_default_group_store = sasm.is_default_group_store

\* C5 amended: whenever migrate() returns a mapping, the mapping links the
\* destination parent to the destination account store named like the source
\* account store; when this invocation created it, its list_index,
\* is_default_account_store and is_default_group_store equal those of the
\* source mapping.
C5_CreatedMappingMatchesSource ==
    \A p \in Procs :
        (pc[p] = "returned" /\ ret[p] # None)
        => /\ ParentHref(ret[p]) = DestinationParent.href
           /\ \E r \in SameNamed : ret[p].account_store = r.href
           /\ Op("create", TRUE) \in Elements(ops[p])
              => /\ ret[p].list_index = sasm.list_index
                 /\ ret[p].is_default_account_store = sasm.is_default_account_store
                 /\ ret[p].is_default_group_store = sasm.is_default_group_store

\* migrate() returned a mapping it created.
C5_Witness ==
    \E p \in Procs :
        /\ pc[p] = "returned"
        /\ ret[p] # None
        /\ Last(ops[p]) = Op("create", TRUE)

\* C6: the remote operations of one invocation are issued in the order tenant
\* refresh, source refresh, search, existence check, create; an operation is
\* issued only after the previous one succeeded, and a failed operation is
\* repeated in place with one error log entry per failure.
C6_SequentialRetryInPlace ==
    [][\A p \in Procs :
          Len(ops'[p]) = Len(ops[p]) + 1
          => /\ Rank(Last(ops'[p]).op) =
                   IF ops[p] = << >> THEN 1
                   ELSE IF Last(ops[p]).ok THEN Rank(Last(ops[p]).op) + 1
                   ELSE Rank(Last(ops[p]).op)
             /\ ~Last(ops'[p]).ok
                => pc'[p] = pc[p] /\ log'[p] = Append(log[p], "error")]_vars

\* C7: when the destination tenant holds no resource of the source account
\* store's kind with its name, migrate() skips: it returns None with one
\* warning, never runs the existence check or the create, never logs the
\* success message and leaves the destination's mappings unchanged.
C7_SkipsWithoutDestinationAccountStore ==
    SameNamed = {}
    => \A p \in Procs :
          /\ ~Issued(p, "list_mappings") /\ ~Issued(p, "create")
          /\ "info" \notin Elements(log[p])
          /\ pc[p] # "raised"
          /\ pc[p] # "idle" => mappings = atStart[p]
          /\ Occurrences(log[p], "warning") = IF pc[p] = "returned" THEN 1 ELSE 0
          /\ pc[p] = "returned" => ret[p] = None /\ Last(log[p]) = "warning"

\* migrate() skipped.
C7_Witness ==
    /\ SameNamed = {}
    /\ \E p \in Procs :
          pc[p] = "returned" /\ ret[p] = None /\ Last(log[p]) = "warning"

\* C8: get_destination_account_store searches one collection of the destination
\* tenant, 'directories' for a Directory, 'groups' for a Group and
\* 'organizations' for an Organization, and returns the first resource of that
\* collection with the source account store's name, or None when there is none;
\* the resource returned is of the source account store's kind.
C8_SearchesCollectionOfClass ==
    \A p \in Procs :
        LET sas == sasm.account_store
            rs == tenant[CollectionOf(sas.klass)]
            hits == {i \in DOMAIN rs : rs[i].name = sas.name}
            das == destination_account_store[p]
        IN  /\ (pc[p] = "get_destination_account_store" \/ Issued(p, "search"))
               => collection[p] = CollectionOf(sas.klass)
            /\ Op("search", TRUE) \in Elements(ops[p])
               => /\ Occurrences(ops[p], Op("search", TRUE)) = 1
                  /\ hits = {} => das = None
                  /\ hits # {} => das = rs[CHOOSE i \in hits : \A j \in hits : i <= j]
                  /\ das # None => das.klass = sas.klass

\* The search returned the first of several resources with the name.
C8_Witness ==
    \E p \in Procs :
        /\ Op("search", TRUE) \in Elements(ops[p])
        /\ Cardinality(SameNamed) > 1
        /\ destination_account_store[p] \in SameNamed

\* C9: after any failures and retries of the create inside one copy_mapping
\* call, the destination holds at most one mapping between the destination
\* parent and the destination account store.
C9_CreateRetryNoDuplicates ==
    \A p \in Procs :
        Issued(p, "create")
        => Cardinality(Between(mappings, destination_account_store[p].href)) <= 1

\* C10: when two invocations for the same destination parent and source mapping
\* interleave, they do not both issue a successful create.
C10_NoDoubleCreate ==
    Cardinality({p \in Procs : Op("create", TRUE) \in Elements(ops[p])}) <= 1


\* C11: migrate() never writes to the source side, and its only remote write
\* is the create of an account store mapping under the destination parent: the
\* source mapping with its account store and the destination tenant's
\* resources never change, and the destination's mappings change only by a
\* create call adding one mapping between the destination parent and the
\* destination account store, the mappings already there kept as they are.
C11_OnlyWriteIsMappingCreate ==
    [][/\ sasm' = sasm
       /\ tenant' = tenant
       /\ mappings' # mappings
          => \E p \in Procs :
                /\ pc[p] = "create"
                /\ Len(ops'[p]) = Len(ops[p]) + 1
                /\ Last(ops'[p]).op = "create"
                /\ Len(mappings') = Len(mappings) + 1
                /\ SubSeq(mappings', 1, Len(mappings)) = mappings
                /\ ParentHref(Last(mappings')) = DestinationParent.href
                /\ Last(mappings').account_store = destination_account_store[p].href]_vars

\* A create was retried after a failure and a mapping was added.
C11_Witness ==
    \E p \in Procs :
        /\ Op("create", FALSE) \in Elements(ops[p])
        /\ Op("create", TRUE) \in Elements(ops[p])
        /\ Len(mappings) > Len(atStart[p])

\* C12: the success log entry is emitted exactly once per invocation that
\* returns a mapping, only after copy_mapping has returned, so only once a
\* mapping between the destination parent and the destination account store
\* exists, and never in an invocation that skips or is still retrying.
C12_SuccessLoggedOncePerMapping ==
    \A p \in Procs :
        /\ Occurrences(log[p], "info") =
              IF pc[p] = "returned" /\ ret[p] # None THEN 1 ELSE 0
        /\ "info" \in Elements(log[p])
           => /\ Last(log[p]) = "info"
              /\ ret[p] \in Elements(mappings)
              /\ Between(mappings, destination_account_store[p].href) # {}

\* migrate() returned a mapping after retries and logged the success once.
C12_Witness ==
    \E p \in Procs :
        /\ pc[p] = "returned"
        /\ ret[p] # None
        /\ "error" \in Elements(log[p])
        /\ Occurrences(log[p], "info") = 1


\* C13: the two migrator classes are the same state machine up to the kind of
\* the destination parent.  Side by side on corresponding inputs and the same
\* remote successes and failures, the organization migrator issues the
\* operations the application migrator issued, and after the same number of
\* operations both are at the same place with the same log levels, the same
\* destination account store and the same decision (skip, return the existing
\* mapping, create); the mappings they return differ only in the parent field,
\* application for the one and organization for the other.
C13_SameStateMachine ==
    LET n == Len(ops["m2"])
    IN  /\ n <= Len(ops["m1"])
        /\ SubSeq(ops["m1"], 1, n) = ops["m2"]
        /\ (pc["m2"] # "idle" /\ Len(ops["m1"]) = n)
           => /\ pc["m1"] = pc["m2"]
              /\ log["m1"] = log["m2"]
              /\ collection["m1"] = collection["m2"]
              /\ destination_account_store["m1"] = destination_account_store["m2"]
              /\ (ret["m1"] = None) <=> (ret["m2"] = None)
              /\ ret["m1"] # None
                 => /\ ret["m1"].application = DestinationParent.href
                    /\ ret["m1"].organization = ""
                    /\ ret["m2"].organization = DestinationParent.href
                    /\ ret["m2"].application = ""
                    /\ ret["m1"].account_store = ret["m2"].account_store
                    /\ ret["m1"].list_index = ret["m2"].list_index
                    /\ ret["m1"].is_default_account_store = ret["m2"].is_default_account_store
                    /\ ret["m1"].is_default_group_store = ret["m2"].is_default_group_store

\* Both migrators returned the mapping that already existed, after the same failure.
C13_Witness ==
    /\ pc["m1"] = "returned" /\ pc["m2"] = "returned"
    /\ ret["m1"] # None /\ ret["m2"] # None
    /\ Last(ops["m2"]) = Op("list_mappings", TRUE)
    /\ "error" \in Elements(log["m2"])

====
